---- MODULE Spec2Model ----
(***************************************************************************)
(* A model of the FLAC frame decoder of sonata-codecs-flac (framing.rs):   *)
(* FrameStream::next and everything it calls, over a byte stream.          *)
(*                                                                         *)
(* 32-bit words (i32 and u32 alike) are represented by their two's         *)
(* complement signed value, MinI32..MaxI32; every operation on them is     *)
(* written so that no intermediate value leaves that range.                *)
(***************************************************************************)
EXTENDS Integers, Sequences, FiniteSets

VARIABLES
    stream,             \* the bytes behind the reader `reader` (never changes)
    input,              \* the description of the frame the stream was produced from
    debug,              \* the build: TRUE = overflow checks on (debug), FALSE = wrapping (release)
    stream_bps,         \* FrameStream.stream_bps        (Option: {} or {v})
    stream_sample_rate, \* FrameStream.stream_sample_rate (Option: {} or {v})
    validator,          \* FrameStream.validator: the updates the digest has absorbed
    pos,                \* bytes of `stream` the reader has consumed
    buf,                \* the caller's AudioBuffer<i32>
    pc,                 \* position inside FrameStream::next ("idle" between calls)
    result,             \* what the last call of next returned ("none" while running)
    start,              \* reader position when the running call began
    crc16,              \* reader_crc16's running checksum
    header,             \* the FrameHeader returned by read_frame_header
    sync,               \* reader position of the sync code read_frame_header found
    bits_per_sample,    \* next's local bits_per_sample
    sample_rate,        \* next's local sample_rate
    resid,              \* the checks decode_residual made in the running call
    decoded             \* the sync positions of the frames next has returned Ok for

vars == <<stream, input, debug, stream_bps, stream_sample_rate, validator, pos, buf,
          pc, result, start, crc16, header, sync, bits_per_sample, sample_rate,
          resid, decoded>>

(***************************************************************************)
(* Option<T>: None is the empty set, Some(v) the singleton.                *)
(***************************************************************************)
None == {}
Some(v) == {v}
IsSome(o) == o # {}
Get(o) == CHOOSE v \in o : TRUE

\* `let x = v; F(x)`: v is evaluated once and F applied to its value
With(v, F(_)) == CHOOSE r \in {F(x) : x \in {v}} : TRUE

(***************************************************************************)
(* 32-bit arithmetic.                                                      *)
(***************************************************************************)
MaxI32 == 2147483647
MinI32 == (-MaxI32) - 1
Two30 == 1073741824

Pow2(n) == 2 ^ n

\* a + b overflows i32
AddOverflows(a, b) ==
    \/ a > 0 /\ b > MaxI32 - a
    \/ a < 0 /\ b < MinI32 - a

\* a + b modulo 2^32
WrappingAdd(a, b) ==
    IF a > 0 /\ b > MaxI32 - a THEN (a + MinI32) + (b + MinI32)
    ELSE IF a < 0 /\ b < MinI32 - a THEN (a - MinI32) + (b - MinI32)
    ELSE a + b

\* -a modulo 2^32
WrappingNeg(a) == IF a = MinI32 THEN MinI32 ELSE -a

WrappingSub(a, b) ==
    IF b = MinI32 THEN WrappingAdd(WrappingAdd(a, MaxI32), 1)
    ELSE WrappingAdd(a, -b)

SubOverflows(a, b) ==
    IF b = MinI32 THEN a >= 0 ELSE AddOverflows(a, -b)

\* x << s for 0 <= s <= 31: the bits shifted out are lost
Shl32(x, s) ==
    IF s = 0 THEN x
    ELSE LET low == x % Pow2(31 - s)
             top == (x \div Pow2(31 - s)) % 2
         IN  (low - top * Pow2(31 - s)) * Pow2(s)

\* x << s loses bits (the result is not x * 2^s)
ShlOverflows(x, s) ==
    s > 0 /\ (x >= Pow2(31 - s) \/ x < -Pow2(31 - s))

\* i32 >> s, arithmetic
Shr32(x, s) == x \div Pow2(s)

\* u32 >> 1, logical, on the two's complement representation
LShr1(w) == IF w >= 0 THEN w \div 2 ELSE ((w \div 2) + Two30) + Two30

\* i32::wrapping_shl: the shift is taken modulo 32
wrapping_shl(x, s) == Shl32(x, s % 32)

(***************************************************************************)
(* Checksums (sonata_core::checksum): CRC-8 with polynomial 0x07 and       *)
(* CRC-16 with polynomial 0x8005, both starting from 0, most significant   *)
(* bit first.                                                              *)
(***************************************************************************)
RECURSIVE Xor(_, _, _)
Xor(a, b, n) ==
    IF n = 0 THEN 0
    ELSE 2 * Xor(a \div 2, b \div 2, n - 1) + ((a + b) % 2)

Xor4 == [a \in 0..15 |-> [b \in 0..15 |-> Xor(a, b, 4)]]
Xor8(a, b) == 16 * Xor4[a \div 16][b \div 16] + Xor4[a % 16][b % 16]
Xor16(a, b) == 256 * Xor8(a \div 256, b \div 256) + Xor8(a % 256, b % 256)

RECURSIVE Crc8Bits(_, _)
Crc8Bits(c, n) ==
    IF n = 0 THEN c
    ELSE Crc8Bits(IF c >= 128 THEN Xor8((2 * c) % 256, 7) ELSE 2 * c, n - 1)

RECURSIVE Crc16Bits(_, _)
Crc16Bits(c, n) ==
    IF n = 0 THEN c
    ELSE Crc16Bits(IF c >= 32768 THEN Xor16((2 * c) % 65536, 32773) ELSE 2 * c, n - 1)

Crc8Table == [x \in 0..255 |-> Crc8Bits(x, 8)]
Crc16Table == [x \in 0..255 |-> Crc16Bits(256 * x, 8)]

Crc8Byte(c, b) == Crc8Table[Xor8(c, b)]
Crc16Byte(c, b) == Xor16((c % 256) * 256, Crc16Table[Xor8(c \div 256, b)])

\* the checksum c after the bytes s[from+1 .. to] have passed through it.
\* The run is split in halves to keep the evaluation shallow (c is never
\* negative: the test makes TLC compute c before it goes on)
RECURSIVE Crc8Run(_, _, _, _)
Crc8Run(c, s, from, to) ==
    IF from >= to \/ c < 0 THEN c
    ELSE IF to = from + 1 THEN Crc8Byte(c, s[to])
    ELSE Crc8Run(Crc8Run(c, s, from, (from + to) \div 2), s, (from + to) \div 2, to)

RECURSIVE Crc16Run(_, _, _, _)
Crc16Run(c, s, from, to) ==
    IF from >= to \/ c < 0 THEN c
    ELSE IF to = from + 1 THEN Crc16Byte(c, s[to])
    ELSE Crc16Run(Crc16Run(c, s, from, (from + to) \div 2), s, (from + to) \div 2, to)

(***************************************************************************)
(* Bytestream (sonata_core::io): reads at a byte position p of s.  A read  *)
(* past the end is an I/O error that leaves the reader at the end.         *)
(***************************************************************************)
HasBytes(s, p, n) == p + n <= Len(s)
read_u8(s, p) == s[p + 1]
read_be_u16(s, p) == 256 * s[p + 1] + s[p + 2]

(***************************************************************************)
(* BitStreamLtr (sonata_core::io): most significant bit first, fetching    *)
(* one byte at a time from the wrapped reader.  bp is the absolute index   *)
(* of the next bit; the bytes fetched so far are the first BytesOf(bp).    *)
(***************************************************************************)
BitLen(s) == 8 * Len(s)
BytesOf(bp) == (bp + 7) \div 8
HasBits(s, bp, n) == bp + n <= BitLen(s)
Bit(s, k) == (s[(k \div 8) + 1] \div Pow2(7 - (k % 8))) % 2

\* the n <= 31 bits from bit k on, as an unsigned number
RECURSIVE BitsAt(_, _, _)
BitsAt(s, k, n) ==
    IF n = 0 THEN 0
    ELSE LET room == 8 - (k % 8)
             take == IF n < room THEN n ELSE room
             part == (s[(k \div 8) + 1] \div Pow2(room - take)) % Pow2(take)
         IN  part * Pow2(n - take) + BitsAt(s, k + take, n - take)

\* read_bits_leq32: a u32, in the two's complement representation
read_bits_leq32(s, bp, n) ==
    IF n <= 31 THEN BitsAt(s, bp, n)
    ELSE LET low == BitsAt(s, bp + 1, 31)
         IN  IF Bit(s, bp) = 1 THEN (low - Two30) - Two30 ELSE low

\* read_unary: the number of 0 bits before the next 1 bit; -1 = the stream
\* ended first
RECURSIVE UnaryAt(_, _, _)
UnaryAt(s, k, n) ==
    IF k >= BitLen(s) THEN -1
    ELSE IF Bit(s, k) = 1 THEN n
    ELSE UnaryAt(s, k + 1, n + 1)

read_unary(s, bp) == UnaryAt(s, bp, 0)

\* sign_extend_leq32_to_i32: the low `width` bits of value as a signed number
sign_extend_leq32_to_i32(value, width) ==
    IF width = 0 THEN 0
    ELSE IF width >= 32 THEN value
    ELSE IF value >= Pow2(width - 1) THEN value - Pow2(width - 1) - Pow2(width - 1)
    ELSE value

(***************************************************************************)
(* utf8_decode_be_u64 (sonata_core::io): the first byte gives the number   *)
(* of continuation bytes, each of which carries 6 bits.  The u64 value is  *)
(* kept as its low 31 bits and whether it exceeds them.                    *)
(***************************************************************************)
Utf8Extra(b) ==
    IF b < 128 THEN 0
    ELSE IF b < 192 THEN -1
    ELSE IF b < 224 THEN 1
    ELSE IF b < 240 THEN 2
    ELSE IF b < 248 THEN 3
    ELSE IF b < 252 THEN 4
    ELSE IF b < 254 THEN 5
    ELSE IF b = 254 THEN 6
    ELSE -1

Utf8Lead(b) ==
    IF b < 128 THEN b
    ELSE IF b < 224 THEN b % 32
    ELSE IF b < 240 THEN b % 16
    ELSE IF b < 248 THEN b % 8
    ELSE IF b < 252 THEN b % 4
    ELSE IF b < 254 THEN b % 2
    ELSE 0

RECURSIVE Utf8Cont(_, _, _, _, _)
Utf8Cont(s, p, n, low, big) ==
    IF n = 0 THEN [st |-> "Ok", pos |-> p, low |-> low, big |-> big]
    ELSE IF ~HasBytes(s, p, 1) THEN [st |-> "IoError", pos |-> Len(s), low |-> 0, big |-> FALSE]
    ELSE Utf8Cont(s, p + 1, n - 1, (low % Pow2(25)) * 64 + (read_u8(s, p) % 64),
                  big \/ low >= Pow2(25))

\* st = "None" is Ok(None)
utf8_decode_be_u64(s, p) ==
    IF ~HasBytes(s, p, 1) THEN [st |-> "IoError", pos |-> Len(s), low |-> 0, big |-> FALSE]
    ELSE LET b == read_u8(s, p)
         IN  IF Utf8Extra(b) < 0 THEN [st |-> "None", pos |-> p + 1, low |-> 0, big |-> FALSE]
             ELSE Utf8Cont(s, p + 1, Utf8Extra(b), Utf8Lead(b), FALSE)

(***************************************************************************)
(* read_frame_header.  The result is [st, pos, header, sync]: st is "Ok",  *)
(* "DecodeError", "IoError" or "Panic", pos the reader position afterwards,*)
(* sync the position of the sync code (-1: none was found).                *)
(***************************************************************************)
NoHeader == [blocking_strategy |-> "Fixed", block_sequence |-> 0, block_num_samples |-> 0,
             sample_rate |-> None, channel_assignment |-> [kind |-> "Independant", channels |-> 0],
             bits_per_sample |-> None]

HRes(st, p, h, sy) == [st |-> st, pos |-> p, header |-> h, sync |-> sy]

\* the loop `while (sync & 0xfffc) != 0xfff8`: the position of the first 16-bit
\* word, two bytes at a time from p, that is a sync code; -1 when the stream ends
RECURSIVE SyncScan(_, _)
SyncScan(s, p) ==
    IF ~HasBytes(s, p, 2) THEN -1
    ELSE IF read_be_u16(s, p) \div 4 = 16382 THEN p
    ELSE SyncScan(s, p + 2)

BlockNumSamplesSlip(s, p, enc, dbg) ==
    IF enc = 1 THEN [st |-> "Ok", pos |-> p, v |-> 192]
    ELSE IF enc >= 2 /\ enc <= 5 THEN [st |-> "Ok", pos |-> p, v |-> 576 * Pow2(enc - 2)]
    ELSE IF enc >= 6 /\ enc <= 7 THEN
        IF ~HasBytes(s, p, enc - 5) THEN [st |-> "IoError", pos |-> Len(s), v |-> 0]
        ELSE IF enc = 6 THEN [st |-> "Ok", pos |-> p + 1, v |-> read_u8(s, p) + 1]
        ELSE [st |-> IF dbg /\ read_be_u16(s, p) = 65535 THEN "Panic" ELSE "Ok",
              pos |-> p + 2, v |-> (read_be_u16(s, p) + 1) % 65536]
    ELSE IF enc >= 8 /\ enc <= 15 THEN [st |-> "Ok", pos |-> p, v |-> 576 * Pow2(enc - 6)]
    ELSE [st |-> "DecodeError", pos |-> p, v |-> 0]

\* `match block_size_enc`: [st, pos, v]
BlockNumSamples(s, p, enc, dbg) ==
    IF enc = 1 THEN [st |-> "Ok", pos |-> p, v |-> 192]
    ELSE IF enc >= 2 /\ enc <= 5 THEN [st |-> "Ok", pos |-> p, v |-> 576 * Pow2(enc - 2)]
    ELSE IF enc = 6 THEN
        IF ~HasBytes(s, p, 1) THEN [st |-> "IoError", pos |-> Len(s), v |-> 0]
        ELSE [st |-> "Ok", pos |-> p + 1, v |-> read_u8(s, p) + 1]
    ELSE IF enc = 7 THEN
        IF ~HasBytes(s, p, 2) THEN [st |-> "IoError", pos |-> Len(s), v |-> 0]
        ELSE IF read_be_u16(s, p) = 65535
             THEN [st |-> IF dbg THEN "Panic" ELSE "Ok", pos |-> p + 2, v |-> 0]
             ELSE [st |-> "Ok", pos |-> p + 2, v |-> read_be_u16(s, p) + 1]
    ELSE IF enc >= 8 /\ enc <= 15 THEN [st |-> "Ok", pos |-> p, v |-> 256 * Pow2(enc - 8)]
    ELSE [st |-> "DecodeError", pos |-> p, v |-> 0]

SampleRateTable ==
    <<88200, 176400, 192000, 8000, 16000, 22050, 24000, 32000, 44100, 48000, 96000>>

\* `match sample_rate_enc`: [st, pos, v]
SampleRate(s, p, enc) ==
    IF enc = 0 THEN [st |-> "Ok", pos |-> p, v |-> None]
    ELSE IF enc <= 11 THEN [st |-> "Ok", pos |-> p, v |-> Some(SampleRateTable[enc])]
    ELSE IF enc = 12 THEN
        IF ~HasBytes(s, p, 1) THEN [st |-> "IoError", pos |-> Len(s), v |-> None]
        ELSE [st |-> "Ok", pos |-> p + 1, v |-> Some(read_u8(s, p))]
    ELSE IF enc = 13 THEN
        IF ~HasBytes(s, p, 2) THEN [st |-> "IoError", pos |-> Len(s), v |-> None]
        ELSE [st |-> "Ok", pos |-> p + 2, v |-> Some(read_be_u16(s, p))]
    ELSE IF enc = 14 THEN
        IF ~HasBytes(s, p, 2) THEN [st |-> "IoError", pos |-> Len(s), v |-> None]
        ELSE [st |-> "Ok", pos |-> p + 2, v |-> Some(read_be_u16(s, p) * 10)]
    ELSE [st |-> "DecodeError", pos |-> p, v |-> None]

\* `match bits_per_sample_enc`: [st, v]
BitsPerSample(enc) ==
    IF enc = 0 THEN [st |-> "Ok", v |-> None]
    ELSE IF enc = 1 THEN [st |-> "Ok", v |-> Some(8)]
    ELSE IF enc = 2 THEN [st |-> "Ok", v |-> Some(12)]
    ELSE IF enc = 4 THEN [st |-> "Ok", v |-> Some(16)]
    ELSE IF enc = 5 THEN [st |-> "Ok", v |-> Some(20)]
    ELSE IF enc = 6 THEN [st |-> "Ok", v |-> Some(24)]
    ELSE [st |-> "DecodeError", v |-> None]

\* `match channels_enc`: [st, v]
ChannelAssignment(enc) ==
    IF enc <= 7 THEN [st |-> "Ok", v |-> [kind |-> "Independant", channels |-> enc + 1]]
    ELSE IF enc = 8 THEN [st |-> "Ok", v |-> [kind |-> "LeftSide", channels |-> 2]]
    ELSE IF enc = 9 THEN [st |-> "Ok", v |-> [kind |-> "RightSide", channels |-> 2]]
    ELSE IF enc = 10 THEN [st |-> "Ok", v |-> [kind |-> "MidSide", channels |-> 2]]
    ELSE [st |-> "DecodeError", v |-> [kind |-> "Independant", channels |-> 0]]

\* the checksum reader_crc8 holds once the reader is at q, for a header read
\* that began at p0 and found its sync code at sy: the checksum is created
\* before the scan and not reset by it
HeaderCrc8(s, p0, sy, q) == Crc8Run(0, s, p0, q)

\* from the sample-rate field to the end of the header
HeaderTail(s, p0, sy, strategy, seq, desc, blk) ==
    LET rate == SampleRate(s, blk.pos, (desc \div 256) % 16)
        bps  == BitsPerSample((desc \div 2) % 8)
        chn  == ChannelAssignment((desc \div 16) % 16)
        q    == rate.pos
    IN  IF rate.st # "Ok" THEN HRes(rate.st, rate.pos, NoHeader, sy)
        ELSE IF IsSome(rate.v) /\ (Get(rate.v) < 1 \/ Get(rate.v) > 655350)
             THEN HRes("DecodeError", q, NoHeader, sy)
        ELSE IF bps.st # "Ok" THEN HRes("DecodeError", q, NoHeader, sy)
        ELSE IF chn.st # "Ok" THEN HRes("DecodeError", q, NoHeader, sy)
        ELSE IF ~HasBytes(s, q, 1) THEN HRes("IoError", Len(s), NoHeader, sy)
        ELSE IF read_u8(s, q) # HeaderCrc8(s, p0, sy, q)
             THEN HRes("DecodeError", q + 1, NoHeader, sy)
        ELSE HRes("Ok", q + 1,
                  [blocking_strategy |-> strategy,
                   block_sequence |-> seq,
                   block_num_samples |-> blk.v,
                   sample_rate |-> rate.v,
                   channel_assignment |-> chn.v,
                   bits_per_sample |-> bps.v],
                  sy)

read_frame_header(s, p0, dbg) ==
    LET sy == SyncScan(s, p0)
    IN  IF sy < 0 THEN HRes("IoError", Len(s), NoHeader, -1)
        ELSE IF ~HasBytes(s, sy + 2, 2) THEN HRes("IoError", Len(s), NoHeader, sy)
        ELSE
          LET strategy == IF read_be_u16(s, sy) % 2 = 0 THEN "Fixed" ELSE "Variable"
              desc == read_be_u16(s, sy + 2)
              num  == utf8_decode_be_u64(s, sy + 4)
          IN  IF num.st = "IoError" THEN HRes("IoError", num.pos, NoHeader, sy)
              ELSE IF num.st = "None" THEN HRes("Panic", num.pos, NoHeader, sy)
              ELSE IF strategy = "Fixed" /\ num.big
                   THEN HRes("DecodeError", num.pos, NoHeader, sy)
              ELSE
                LET blk == BlockNumSamples(s, num.pos, desc \div 4096, dbg)
                IN  IF blk.st # "Ok" THEN HRes(blk.st, blk.pos, NoHeader, sy)
                    ELSE HeaderTail(s, p0, sy, strategy,
                                    [low |-> num.low, big |-> num.big], desc, blk)

read_frame_footer(s, p) ==
    IF ~HasBytes(s, p, 2) THEN [st |-> "IoError", pos |-> Len(s), v |-> 0]
    ELSE [st |-> "Ok", pos |-> p + 2, v |-> read_be_u16(s, p)]

(***************************************************************************)
(* Subframes.  A decoder works on a slice b (a sequence of i32) from bit   *)
(* bp on and returns [st, bp, buf, chk]: the status, the next bit, the     *)
(* slice as it has been written so far (also when st is not "Ok"), and     *)
(* the consistency checks decode_residual made (at most one).              *)
(***************************************************************************)
SRes(st, bp, b, chk) == [st |-> st, bp |-> bp, buf |-> b, chk |-> chk]

\* a width read_bits_leq32 does not accept: more than 32 bits (a wrapped
\* u32 is a negative number here)
BadWidth(w) == w < 0 \/ w > 32

Min(a, b) == IF a < b THEN a ELSE b

decode_constant(s, bp, bps, b) ==
    IF BadWidth(bps) THEN SRes("Panic", bp, b, <<>>)
    ELSE IF ~HasBits(s, bp, bps) THEN SRes("IoError", BitLen(s), b, <<>>)
    ELSE LET const_sample == sign_extend_leq32_to_i32(read_bits_leq32(s, bp, bps), bps)
         IN  SRes("Ok", bp + bps, [i \in 1..Len(b) |-> const_sample], <<>>)

decode_verbatim(s, bp, bps, b) ==
    IF Len(b) = 0 THEN SRes("Ok", bp, b, <<>>)
    ELSE IF BadWidth(bps) THEN SRes("Panic", bp, b, <<>>)
    ELSE
      LET n == Len(b)
          avail == IF bps = 0 THEN n ELSE Min(n, (BitLen(s) - bp) \div bps)
          out == [i \in 1..n |->
                    IF i <= avail
                    THEN sign_extend_leq32_to_i32(read_bits_leq32(s, bp + (i - 1) * bps, bps), bps)
                    ELSE b[i]]
      IN  IF avail < n THEN SRes("IoError", BitLen(s), out, <<>>)
          ELSE SRes("Ok", bp + n * bps, out, <<>>)

\* odd codewords negated without the offset of one
RiceSignedNoOffset(word) ==
    LET div2 == LShr1(word)
        sign == -(word % 2)
    IN  IF sign = 0 THEN div2 ELSE -div2

\* `div2 ^ sign`: div2 when sign is 0, all bits of div2 flipped when it is -1
rice_signed_to_i32(word) ==
    LET div2 == LShr1(word)
        sign == -(word % 2)
    IN  IF sign = 0 THEN div2 ELSE (-div2) - 1

\* the Rice coded residuals b[i .. hi], parameter k
RECURSIVE RiceSamples(_, _, _, _, _, _)
RiceSamples(s, bp, k, b, i, hi) ==
    IF i > hi THEN SRes("Ok", bp, b, <<>>)
    ELSE LET q == read_unary(s, bp)
         IN  IF q < 0 THEN SRes("IoError", BitLen(s), b, <<>>)
             ELSE IF ~HasBits(s, bp + q + 1, k) THEN SRes("IoError", BitLen(s), b, <<>>)
             ELSE LET r == read_bits_leq32(s, bp + q + 1, k)
                      v == rice_signed_to_i32(Shl32(q, k) + r)
                  IN  RiceSamples(s, bp + q + 1 + k, k, [b EXCEPT ![i] = v], i + 1, hi)

\* decode_rice_partition on the slice b[lo .. hi] (1-based, inclusive)
decode_rice_partition(s, bp, param_bit_width, b, lo, hi) ==
    IF ~HasBits(s, bp, param_bit_width) THEN SRes("IoError", BitLen(s), b, <<>>)
    ELSE
      LET rice_param == read_bits_leq32(s, bp, param_bit_width)
          bp1 == bp + param_bit_width
      IN  IF rice_param < Pow2(param_bit_width) - 1
          THEN RiceSamples(s, bp1, rice_param, b, lo, hi)
          ELSE IF ~HasBits(s, bp1, 5) THEN SRes("IoError", BitLen(s), b, <<>>)
          ELSE
            LET residual_bits == read_bits_leq32(s, bp1, 5)
                bp2 == bp1 + 5
                n == hi - lo + 1
                avail == IF residual_bits = 0 THEN n
                         ELSE Min(n, (BitLen(s) - bp2) \div residual_bits)
                out == [i \in 1..Len(b) |->
                          IF i >= lo /\ i < lo + avail
                          THEN sign_extend_leq32_to_i32(
                                   read_bits_leq32(s, bp2 + (i - lo) * residual_bits,
                                                   residual_bits), residual_bits)
                          ELSE b[i]]
            IN  IF avail < n THEN SRes("IoError", BitLen(s), out, <<>>)
                ELSE SRes("Ok", bp2 + n * residual_bits, out, <<>>)

\* the loop over buf[n_partition_samples..].chunks_mut(n_partition_samples):
\* the chunks from index `from` (0-based) on; parts collects their lengths
RECURSIVE RemainingPartitions(_, _, _, _, _, _, _)
RemainingPartitions(s, bp, w, b, from, size, parts) ==
    IF from >= Len(b) THEN [st |-> "Ok", bp |-> bp, buf |-> b, parts |-> parts]
    ELSE With(decode_rice_partition(s, bp, w, b, from + 1, Min(from + size, Len(b))),
              LAMBDA r :
                IF r.st # "Ok"
                THEN [st |-> r.st, bp |-> r.bp, buf |-> r.buf, parts |-> parts]
                ELSE RemainingPartitions(s, r.bp, w, r.buf, Min(from + size, Len(b)), size,
                                         Append(parts, Min(from + size, Len(b)) - from)))

\* what decode_residual checked: the block, the warm-up samples, the
\* partition order, whether both checks passed, and the number of residuals
\* decoded in each partition
Chk(len, prelude, order, passed, parts) ==
    [len |-> len, prelude |-> prelude, order |-> order, passed |-> passed, parts |-> parts]

PartitionTooSmallOrEqual(n_prelude_samples, n_partition_samples) ==
    n_prelude_samples >= n_partition_samples

\* the first check of decode_residual: TRUE = error
PartitionTooSmall(n_prelude_samples, n_partition_samples) ==
    n_prelude_samples > n_partition_samples

decode_residual(s, bp, n_prelude_samples, b) ==
    IF ~HasBits(s, bp, 2) THEN SRes("IoError", BitLen(s), b, <<>>)
    ELSE IF read_bits_leq32(s, bp, 2) >= 2 THEN SRes("DecodeError", bp + 2, b, <<>>)
    ELSE IF ~HasBits(s, bp + 2, 4) THEN SRes("IoError", BitLen(s), b, <<>>)
    ELSE
      LET param_bit_width == IF read_bits_leq32(s, bp, 2) = 0 THEN 4 ELSE 5
          order == read_bits_leq32(s, bp + 2, 4)
          n_partitions == Pow2(order)
          n_partition_samples == Len(b) \div Pow2(order)
          bp1 == bp + 6
      IN  IF PartitionTooSmall(n_prelude_samples, n_partition_samples)
          THEN SRes("DecodeError", bp1, b,
                    <<Chk(Len(b), n_prelude_samples, order, FALSE, <<>>)>>)
          ELSE IF n_partitions * n_partition_samples # Len(b)
          THEN SRes("DecodeError", bp1, b,
                    <<Chk(Len(b), n_prelude_samples, order, FALSE, <<>>)>>)
          ELSE
            With(decode_rice_partition(s, bp1, param_bit_width, b,
                                       n_prelude_samples + 1, n_partition_samples),
                 LAMBDA first :
                   IF first.st # "Ok"
                   THEN SRes(first.st, first.bp, first.buf,
                             <<Chk(Len(b), n_prelude_samples, order, TRUE, <<>>)>>)
                   ELSE IF n_partition_samples = 0
                   THEN \* chunks_mut(0) panics
                        SRes("Panic", first.bp, first.buf,
                             <<Chk(Len(b), n_prelude_samples, order, TRUE,
                                   <<n_partition_samples - n_prelude_samples>>)>>)
                   ELSE
                     With(RemainingPartitions(s, first.bp, param_bit_width, first.buf,
                                              n_partition_samples, n_partition_samples,
                                              <<n_partition_samples - n_prelude_samples>>),
                          LAMBDA rest :
                            SRes(rest.st, rest.bp, rest.buf,
                                 <<Chk(Len(b), n_prelude_samples, order, TRUE, rest.parts)>>)))

(***************************************************************************)
(* Predictors.  They return [st, buf]; st is "Panic" when an unchecked     *)
(* i32 operation overflows in a build with overflow checks.                *)
(***************************************************************************)
\* c * x modulo 2^32, for a small coefficient c
RECURSIVE WrappingMul(_, _)
WrappingMul(c, x) ==
    IF c = 0 THEN 0
    ELSE IF c < 0 THEN WrappingNeg(WrappingMul(-c, x))
    ELSE WrappingAdd(x, WrappingMul(c - 1, x))

RECURSIVE MulOverflows(_, _)
MulOverflows(c, x) ==
    IF c = 0 \/ x = 0 THEN FALSE
    ELSE IF c < 0 THEN x = MinI32 \/ MulOverflows(-c, -x)
    ELSE x > MaxI32 \div c \/ x < (MinI32 + (c - 1)) \div c

\* the coefficients of fixed_predict, oldest sample first
FixedCoeffs(order) ==
    IF order = 1 THEN <<1>>
    ELSE IF order = 2 THEN <<-1, 2>>
    ELSE IF order = 3 THEN <<1, -3, 3>>
    ELSE <<-1, 4, -6, 4>>

\* .map(|(&coeff, &sample)| Wrapping(coeff * sample)).sum::<Wrapping<i32>>()
\* over the samples b[i - order .. i - 1]
RECURSIVE FixedSum(_, _, _, _)
FixedSum(cs, b, i, j) ==
    IF j > Len(cs) THEN 0
    ELSE WrappingAdd(WrappingMul(cs[j], b[i - Len(cs) + j - 1]), FixedSum(cs, b, i, j + 1))

FixedMulOverflows(cs, b, i) ==
    \E j \in 1..Len(cs) : MulOverflows(cs[j], b[i - Len(cs) + j - 1])

\* the prediction added to b[i]
FixedPrediction(order, b, i) ==
    IF order = 1 THEN b[i - 1] ELSE FixedSum(FixedCoeffs(order), b, i, 1)

RECURSIVE FixedLoop(_, _, _, _)
FixedLoop(order, b, i, dbg) ==
    IF i > Len(b) THEN [st |-> "Ok", buf |-> b]
    ELSE LET p == FixedPrediction(order, b, i)
             ovf == \/ order >= 2 /\ FixedMulOverflows(FixedCoeffs(order), b, i)
                    \/ AddOverflows(b[i], p)
         IN  IF dbg /\ ovf THEN [st |-> "Panic", buf |-> b]
             ELSE FixedLoop(order, [b EXCEPT ![i] = WrappingAdd(b[i], p)], i + 1, dbg)

fixed_predict(order, b, dbg) ==
    IF order = 0 THEN [st |-> "Ok", buf |-> b]
    ELSE FixedLoop(order, b, order + 1, dbg)

\* an i64 as <<hi, lo>>, standing for hi * 2^16 + lo with 0 <= lo < 2^16.
\* `coeff as i64 * sample as i64`, for a coefficient of at most 15 bits
I64Product(coeff, sample) ==
    LET lo == coeff * (sample % 65536)
    IN  <<coeff * (sample \div 65536) + (lo \div 65536), lo % 65536>>

I64Sum(a, b) ==
    LET lo == a[2] + b[2]
    IN  <<a[1] + b[1] + (lo \div 65536), lo % 65536>>

\* `(predicted >> coeff_shift) as i32`, coeff_shift in 0..31: the arithmetic
\* shift of the i64, of which the low 32 bits are kept
ShrAsI32(predicted, coeff_shift) ==
    IF coeff_shift >= 16 THEN predicted[1] \div Pow2(coeff_shift - 16)
    ELSE
      LET q == (predicted[1] \div Pow2(coeff_shift)) % 65536
          r == predicted[1] % Pow2(coeff_shift)
      IN  (IF q >= 32768 THEN q - 65536 ELSE q) * 65536
              + (r * Pow2(16 - coeff_shift) + (predicted[2] \div Pow2(coeff_shift)))

\* coeffs.iter().zip(&buf[i - n .. i]) summed in i64, for the last n
\* coefficients of the 32-slot window: the terms lo .. hi of the sum (the
\* sum of an i64 does not depend on how its terms are grouped)
RECURSIVE LpcSum(_, _, _, _, _, _)
LpcSum(coeffs, b, i, n, lo, hi) ==
    IF lo > hi THEN <<0, 0>>
    ELSE IF lo = hi THEN I64Product(coeffs[32 - n + lo], b[i - n + lo - 1])
    ELSE I64Sum(LpcSum(coeffs, b, i, n, lo, (lo + hi) \div 2),
                LpcSum(coeffs, b, i, n, ((lo + hi) \div 2) + 1, hi))

\* `buf[i] += (predicted >> coeff_shift) as i32;` at position i (1-based)
LpcStep(coeffs, coeff_shift, b, i, n, dbg) ==
    With(ShrAsI32(LpcSum(coeffs, b, i, n, 1, n), coeff_shift),
         LAMBDA add :
           IF dbg /\ AddOverflows(b[i], add) THEN [st |-> "Panic", buf |-> b]
           ELSE [st |-> "Ok", buf |-> [b EXCEPT ![i] = WrappingAdd(b[i], add)]])

\* one loop of lpc_predict: positions i .. last (1-based) in turn, n taps;
\* the positions up to the middle one, then the rest
RECURSIVE LpcLoop(_, _, _, _, _, _, _)
LpcLoop(coeffs, coeff_shift, b, i, last, n, dbg) ==
    IF i > last THEN [st |-> "Ok", buf |-> b]
    ELSE IF i = last THEN LpcStep(coeffs, coeff_shift, b, i, n, dbg)
    ELSE With(LpcLoop(coeffs, coeff_shift, b, i, (i + last) \div 2, n, dbg),
              LAMBDA first :
                IF first.st # "Ok" THEN first
                ELSE LpcLoop(coeffs, coeff_shift, first.buf, ((i + last) \div 2) + 1, last,
                             n, dbg))

lpc_predict(order, coeffs, coeff_shift, b, dbg) ==
    LET n_prefill == Min(32, Len(b)) - order
        pre == LpcLoop(coeffs, coeff_shift, b, order + 1, order + n_prefill, order, dbg)
    IN  IF pre.st # "Ok" \/ Len(b) <= 32 THEN pre
        ELSE LpcLoop(coeffs, coeff_shift, pre.buf, 33, Len(b), 32, dbg)

\* the slice b with its first Len(w) samples replaced by w
Prefix(w, b) == [i \in 1..Len(b) |-> IF i <= Len(w) THEN w[i] ELSE b[i]]

decode_fixed_linear(s, bp, bps, order, b, dbg) ==
    IF order > Len(b) THEN SRes("Panic", bp, b, <<>>)   \* buf[..order] is out of range
    ELSE
      With(decode_verbatim(s, bp, bps, SubSeq(b, 1, order)),
           LAMBDA warm :
             IF warm.st # "Ok" THEN SRes(warm.st, warm.bp, Prefix(warm.buf, b), <<>>)
             ELSE With(decode_residual(s, warm.bp, order, Prefix(warm.buf, b)),
                       LAMBDA res :
                         IF res.st # "Ok" THEN res
                         ELSE With(fixed_predict(order, res.buf, dbg),
                                   LAMBDA pr : SRes(pr.st, res.bp, pr.buf, res.chk))))

\* the coefficient array filled front to back: the k-th coefficient read goes
\* to slot 32 - order + k
QlpCoeffsForward(s, bp, order, qlp_precision) ==
    [j \in 1..32 |->
        IF j <= 32 - order THEN 0
        ELSE sign_extend_leq32_to_i32(
                 read_bits_leq32(s, bp + (j - (32 - order) - 1) * qlp_precision,
                                 qlp_precision),
                 qlp_precision)]

\* the coefficient array: the k-th coefficient read goes to slot 32 - k + 1
QlpCoeffs(s, bp, order, qlp_precision) ==
    [j \in 1..32 |->
        IF j <= 32 - order THEN 0
        ELSE sign_extend_leq32_to_i32(
                 read_bits_leq32(s, bp + (32 - j) * qlp_precision, qlp_precision),
                 qlp_precision)]

\* the 5-bit shift field taken as unsigned
QlpCoeffShiftUnsigned(field) == field

\* `sign_extend_leq32_to_i32(bs.read_bits_leq32(5)?, 5)`
QlpCoeffShift(field) == sign_extend_leq32_to_i32(field, 5)

\* decode_linear after the warm-up samples: b1 is the slice with the warm-up
\* samples in place, bp1 the bit after them
LinearTail(s, bp1, order, b1, dbg) ==
    IF ~HasBits(s, bp1, 4) THEN SRes("IoError", BitLen(s), b1, <<>>)
    ELSE IF read_bits_leq32(s, bp1, 4) + 1 > 15 THEN SRes("DecodeError", bp1 + 4, b1, <<>>)
    ELSE IF ~HasBits(s, bp1 + 4, 5) THEN SRes("IoError", BitLen(s), b1, <<>>)
    ELSE IF ~HasBits(s, bp1 + 9, order * (read_bits_leq32(s, bp1, 4) + 1))
    THEN SRes("IoError", BitLen(s), b1, <<>>)
    ELSE
      LET qlp_precision == read_bits_leq32(s, bp1, 4) + 1
          qlp_coeff_shift == QlpCoeffShift(read_bits_leq32(s, bp1 + 4, 5))
      IN  With(decode_residual(s, bp1 + 9 + order * qlp_precision, order, b1),
               LAMBDA res :
                 IF res.st # "Ok" THEN res
                 ELSE IF qlp_coeff_shift >= 0
                 THEN With(lpc_predict(order, QlpCoeffs(s, bp1 + 9, order, qlp_precision),
                                       qlp_coeff_shift, res.buf, dbg),
                           LAMBDA pr : SRes(pr.st, res.bp, pr.buf, res.chk))
                 ELSE SRes("UnsupportedError", res.bp, res.buf, res.chk))

decode_linear(s, bp, bps, order, b, dbg) ==
    IF order > Len(b) THEN SRes("Panic", bp, b, <<>>)   \* buf[0..order] is out of range
    ELSE With(decode_verbatim(s, bp, bps, SubSeq(b, 1, order)),
              LAMBDA warm :
                IF warm.st # "Ok" THEN SRes(warm.st, warm.bp, Prefix(warm.buf, b), <<>>)
                ELSE LinearTail(s, warm.bp, order, Prefix(warm.buf, b), dbg))

samples_shl(shift, b) ==
    IF shift > 0 THEN [i \in 1..Len(b) |-> wrapping_shl(b[i], shift)] ELSE b

\* `match subframe_type_enc`: [st, kind, order]
SubFrameType(enc) ==
    IF enc = 0 THEN [st |-> "Ok", kind |-> "Constant", order |-> 0]
    ELSE IF enc = 1 THEN [st |-> "Ok", kind |-> "Verbatim", order |-> 0]
    ELSE IF enc >= 8 /\ enc <= 15 THEN
        IF enc % 8 > 4 THEN [st |-> "DecodeError", kind |-> "FixedLinear", order |-> enc % 8]
        ELSE [st |-> "Ok", kind |-> "FixedLinear", order |-> enc % 8]
    ELSE IF enc >= 32 /\ enc <= 63 THEN [st |-> "Ok", kind |-> "Linear", order |-> (enc % 32) + 1]
    ELSE [st |-> "DecodeError", kind |-> "Constant", order |-> 0]

\* `let bps = frame_bps - dropped_bps;` on u32: [st, v].  The subtraction is
\* unchecked: when it underflows, a build with overflow checks panics and a
\* build without them goes on with the wrapped difference
EffectiveBps(frame_bps, dropped_bps, dbg) ==
    IF dropped_bps > frame_bps
    THEN [st |-> IF dbg THEN "Panic" ELSE "Ok", v |-> frame_bps - dropped_bps]
    ELSE [st |-> "Ok", v |-> frame_bps - dropped_bps]

read_subframe(s, bp, frame_bps, b, dbg) ==
    IF ~HasBits(s, bp, 1) THEN SRes("IoError", BitLen(s), b, <<>>)
    ELSE IF Bit(s, bp) = 1 THEN SRes("DecodeError", bp + 1, b, <<>>)
    ELSE IF ~HasBits(s, bp + 1, 6) THEN SRes("IoError", BitLen(s), b, <<>>)
    ELSE
      LET type == SubFrameType(read_bits_leq32(s, bp + 1, 6))
      IN  IF type.st # "Ok" THEN SRes("DecodeError", bp + 7, b, <<>>)
          ELSE IF ~HasBits(s, bp + 7, 1) THEN SRes("IoError", BitLen(s), b, <<>>)
          ELSE IF Bit(s, bp + 7) = 1 /\ read_unary(s, bp + 8) < 0
               THEN SRes("IoError", BitLen(s), b, <<>>)
          ELSE
            LET dropped_bps == IF Bit(s, bp + 7) = 1 THEN read_unary(s, bp + 8) ELSE 0
                bp1 == IF Bit(s, bp + 7) = 1 THEN bp + 8 + dropped_bps + 1 ELSE bp + 8
                bps == EffectiveBps(frame_bps, dropped_bps, dbg)
            IN  IF bps.st # "Ok" THEN SRes(bps.st, bp1, b, <<>>)
                ELSE
                  With(IF type.kind = "Constant" THEN decode_constant(s, bp1, bps.v, b)
                       ELSE IF type.kind = "Verbatim" THEN decode_verbatim(s, bp1, bps.v, b)
                       ELSE IF type.kind = "FixedLinear"
                            THEN decode_fixed_linear(s, bp1, bps.v, type.order, b, dbg)
                       ELSE decode_linear(s, bp1, bps.v, type.order, b, dbg),
                       LAMBDA r :
                         IF r.st # "Ok" THEN r
                         ELSE SRes("Ok", r.bp, samples_shl(dropped_bps, r.buf), r.chk))

(***************************************************************************)
(* Channel decorrelation.  Each returns [st, a, b]: the two slices in the  *)
(* order of its parameters; st is "Panic" when an unchecked operation      *)
(* overflows in a build with overflow checks.                              *)
(***************************************************************************)
DRes(ovf, a, b, dbg) == [st |-> IF dbg /\ ovf THEN "Panic" ELSE "Ok", a |-> a, b |-> b]

decorrelate_left_side(left, side, dbg) ==
    DRes(\E i \in 1..Len(side) : SubOverflows(left[i], side[i]),
         left,
         [i \in 1..Len(side) |-> WrappingSub(left[i], side[i])], dbg)

\* (m << 1) | (s & 1)
DoubledMidEven(m, s) == Shl32(m, 1)

DoubledMid(m, s) == Shl32(m, 1) + (s % 2)

decorrelate_mid_side(mid, side, dbg) ==
    DRes(\E i \in 1..Len(mid) :
            \/ AddOverflows(DoubledMid(mid[i], side[i]), side[i])
            \/ SubOverflows(DoubledMid(mid[i], side[i]), side[i]),
         [i \in 1..Len(mid) |->
            Shr32(WrappingAdd(DoubledMid(mid[i], side[i]), side[i]), 1)],
         [i \in 1..Len(side) |->
            Shr32(WrappingSub(DoubledMid(mid[i], side[i]), side[i]), 1)], dbg)

decorrelate_right_side(right, side, dbg) ==
    DRes(\E i \in 1..Len(side) : AddOverflows(right[i], side[i]),
         right,
         [i \in 1..Len(side) |-> WrappingAdd(right[i], side[i])], dbg)

(***************************************************************************)
(* AudioBuffer<i32> (sonata_core::audio): n_frames samples per channel,    *)
(* chan[c] the samples of channel c.  produce(n) makes a chunk of n        *)
(* samples per channel writable.                                           *)
(***************************************************************************)
Zeros(n) == [i \in 1..n |-> 0]
NewBuffer(channels) == [n_frames |-> 0, chan |-> [c \in 0..(channels - 1) |-> <<>>]]
produce(b, n) == [n_frames |-> n, chan |-> [c \in DOMAIN b.chan |-> Zeros(n)]]

(***************************************************************************)
(* FrameStream::next, step by step.  pc is the step the running call is    *)
(* at; a step that fails returns from the call (Return).                   *)
(***************************************************************************)
Return(st) ==
    /\ pc' = "idle"
    /\ result' = st

\* `if let Some(v) = header value { v } else if let Some(v) = stream value { v }
\*  else { return decode_error(..) }`
ResolveStreamFirst(frame_value, stream_value) ==
    IF IsSome(stream_value) THEN stream_value ELSE frame_value

Resolve(frame_value, stream_value) ==
    IF IsSome(frame_value) THEN frame_value ELSE stream_value

\* the subframes of an Independant(channels) frame, from channel c on:
\* [st, bp, chan, chk]
RECURSIVE IndependantSubframes(_, _, _, _, _, _, _, _)
IndependantSubframes(s, bp, bps, chan, c, channels, chk, dbg) ==
    IF c >= channels THEN [st |-> "Ok", bp |-> bp, chan |-> chan, chk |-> chk]
    ELSE IF c \notin DOMAIN chan
         THEN [st |-> "Panic", bp |-> bp, chan |-> chan, chk |-> chk]
    ELSE With(read_subframe(s, bp, bps, chan[c], dbg),
              LAMBDA r :
                IF r.st # "Ok"
                THEN [st |-> r.st, bp |-> r.bp, chan |-> [chan EXCEPT ![c] = r.buf],
                      chk |-> chk \o r.chk]
                ELSE IndependantSubframes(s, r.bp, bps, [chan EXCEPT ![c] = r.buf], c + 1,
                                          channels, chk \o r.chk, dbg))

\* the two subframes of a LeftSide, MidSide or RightSide frame: channel 0 at
\* bps0 bits, then channel 1 at bps1 bits
PairSubframes(s, bp, bps0, bps1, chan, dbg) ==
    IF ~({0, 1} \subseteq DOMAIN chan)
    THEN [st |-> "Panic", bp |-> bp, chan |-> chan, chk |-> <<>>]
    ELSE With(read_subframe(s, bp, bps0, chan[0], dbg),
              LAMBDA r0 :
                IF r0.st # "Ok"
                THEN [st |-> r0.st, bp |-> r0.bp, chan |-> [chan EXCEPT ![0] = r0.buf],
                      chk |-> r0.chk]
                ELSE With(read_subframe(s, r0.bp, bps1, chan[1], dbg),
                          LAMBDA r1 :
                            [st |-> r1.st, bp |-> r1.bp,
                             chan |-> [chan EXCEPT ![0] = r0.buf, ![1] = r1.buf],
                             chk |-> r0.chk \o r1.chk]))

\* `match header.channel_assignment`, the reads only
Subframes(s, bp, assignment, bps, chan, dbg) ==
    IF assignment.kind = "Independant"
    THEN IndependantSubframes(s, bp, bps, chan, 0, assignment.channels, <<>>, dbg)
    ELSE PairSubframes(s, bp,
                       IF assignment.kind = "RightSide" THEN bps + 1 ELSE bps,
                       IF assignment.kind = "RightSide" THEN bps ELSE bps + 1,
                       chan, dbg)

\* `match header.channel_assignment`, the decorrelation: [st, chan]
Decorrelated(kind, chan, dbg) ==
    IF kind = "LeftSide"
    THEN LET d == decorrelate_left_side(chan[0], chan[1], dbg)
         IN  [st |-> d.st, chan |-> [chan EXCEPT ![0] = d.a, ![1] = d.b]]
    ELSE IF kind = "MidSide"
    THEN LET d == decorrelate_mid_side(chan[0], chan[1], dbg)
         IN  [st |-> d.st, chan |-> [chan EXCEPT ![0] = d.a, ![1] = d.b]]
    ELSE LET d == decorrelate_right_side(chan[1], chan[0], dbg)
         IN  [st |-> d.st, chan |-> [chan EXCEPT ![1] = d.a, ![0] = d.b]]

\* Md5AudioValidator::update(buf, bits_per_sample): the digest absorbs the
\* samples of the buffer
ValidatorUpdated(v, b, bps) == Append(v, [buf |-> b, bps |-> bps])

\* `if bits_per_sample < 32 { let shift = 32 - bits_per_sample; *sample <<= shift }`
\* [st, chan]: a shift of 32 panics with overflow checks and is a shift of 0
\* without them
NormalizeShift24(bps) == 24 - bps

NormalizeShift(bps) == 32 - bps

Normalized(chan, bps, dbg) ==
    IF bps >= 32 THEN [st |-> "Ok", chan |-> chan]
    ELSE IF NormalizeShift(bps) >= 32 /\ dbg /\ (\E c \in DOMAIN chan : Len(chan[c]) > 0)
    THEN [st |-> "Panic", chan |-> chan]
    ELSE [st |-> "Ok",
          chan |-> [c \in DOMAIN chan |->
                      [i \in 1..Len(chan[c]) |-> Shl32(chan[c][i], NormalizeShift(bps) % 32)]]]

Call ==
    /\ pc = "idle"
    /\ result # "Panic"
    /\ pc' = "header"
    /\ result' = "none"
    /\ start' = pos
    /\ crc16' = 0
    /\ header' = NoHeader
    /\ sync' = -1
    /\ bits_per_sample' = 0
    /\ sample_rate' = 0
    /\ resid' = <<>>
    /\ UNCHANGED <<stream, input, debug, stream_bps, stream_sample_rate, validator, pos,
                   buf, decoded>>

ReadFrameHeader ==
    /\ pc = "header"
    /\ \E r \in {read_frame_header(stream, pos, debug)} :
           /\ pos' = r.pos
           /\ crc16' = Crc16Run(crc16, stream, pos, r.pos)
           /\ sync' = r.sync
           /\ header' = r.header
           /\ IF r.st = "Ok" THEN pc' = "resolve" /\ result' = result ELSE Return(r.st)
    /\ UNCHANGED <<stream, input, debug, stream_bps, stream_sample_rate, validator, buf,
                   start, bits_per_sample, sample_rate, resid, decoded>>

ResolveDefaults ==
    /\ pc = "resolve"
    /\ LET bps == Resolve(header.bits_per_sample, stream_bps)
           rate == Resolve(header.sample_rate, stream_sample_rate)
       IN  IF ~IsSome(bps)
           THEN Return("DecodeError") /\ UNCHANGED <<bits_per_sample, sample_rate>>
           ELSE IF ~IsSome(rate)
           THEN /\ Return("DecodeError")
                /\ bits_per_sample' = Get(bps)
                /\ UNCHANGED sample_rate
           ELSE /\ bits_per_sample' = Get(bps)
                /\ sample_rate' = Get(rate)
                /\ pc' = "produce"
                /\ UNCHANGED result
    /\ UNCHANGED <<stream, input, debug, stream_bps, stream_sample_rate, validator, pos,
                   buf, start, crc16, header, sync, resid, decoded>>

Produce ==
    /\ pc = "produce"
    /\ buf' = produce(buf, header.block_num_samples)
    /\ pc' = "subframes"
    /\ UNCHANGED <<stream, input, debug, stream_bps, stream_sample_rate, validator, pos,
                   result, start, crc16, header, sync, bits_per_sample, sample_rate,
                   resid, decoded>>

ReadSubframes ==
    /\ pc = "subframes"
    /\ \E r \in {Subframes(stream, 8 * pos, header.channel_assignment, bits_per_sample,
                          buf.chan, debug)} :
           /\ buf' = [buf EXCEPT !.chan = r.chan]
           /\ pos' = BytesOf(r.bp)
           /\ crc16' = Crc16Run(crc16, stream, pos, BytesOf(r.bp))
           /\ resid' = r.chk
           /\ IF r.st # "Ok" THEN Return(r.st)
              ELSE /\ pc' = IF header.channel_assignment.kind = "Independant"
                            THEN "validate" ELSE "decorrelate"
                   /\ UNCHANGED result
    /\ UNCHANGED <<stream, input, debug, stream_bps, stream_sample_rate, validator,
                   start, header, sync, bits_per_sample, sample_rate, decoded>>

Decorrelate ==
    /\ pc = "decorrelate"
    /\ \E d \in {Decorrelated(header.channel_assignment.kind, buf.chan, debug)} :
           /\ buf' = [buf EXCEPT !.chan = d.chan]
           /\ IF d.st # "Ok" THEN Return(d.st)
              ELSE pc' = "validate" /\ UNCHANGED result
    /\ UNCHANGED <<stream, input, debug, stream_bps, stream_sample_rate, validator, pos,
                   start, crc16, header, sync, bits_per_sample, sample_rate, resid,
                   decoded>>

ValidateNormalized ==
    /\ pc = "validate"
    /\ validator' = ValidatorUpdated(validator,
                                     [buf EXCEPT !.chan = Normalized(buf.chan, bits_per_sample,
                                                                     FALSE).chan],
                                     bits_per_sample)
    /\ pc' = "normalize"
    /\ UNCHANGED <<stream, input, debug, stream_bps, stream_sample_rate, pos, buf,
                   result, start, crc16, header, sync, bits_per_sample, sample_rate,
                   resid, decoded>>

Validate ==
    /\ pc = "validate"
    /\ validator' = ValidatorUpdated(validator, buf, bits_per_sample)
    /\ pc' = "normalize"
    /\ UNCHANGED <<stream, input, debug, stream_bps, stream_sample_rate, pos, buf,
                   result, start, crc16, header, sync, bits_per_sample, sample_rate,
                   resid, decoded>>

Normalize ==
    /\ pc = "normalize"
    /\ \E n \in {Normalized(buf.chan, bits_per_sample, debug)} :
           /\ buf' = [buf EXCEPT !.chan = n.chan]
           /\ IF n.st # "Ok" THEN Return(n.st)
              ELSE pc' = "footer" /\ UNCHANGED result
    /\ UNCHANGED <<stream, input, debug, stream_bps, stream_sample_rate, validator, pos,
                   start, crc16, header, sync, bits_per_sample, sample_rate, resid,
                   decoded>>

\* the comparison of the footer with the running CRC-16: TRUE = they agree
FooterMatches(footer, crc) == footer = crc

Footer ==
    /\ pc = "footer"
    /\ \E f \in {read_frame_footer(stream, pos)} :
           /\ pos' = f.pos
           /\ IF f.st # "Ok" THEN Return(f.st) /\ UNCHANGED decoded
              ELSE IF ~FooterMatches(f.v, crc16)
              THEN Return("DecodeError") /\ UNCHANGED decoded
              ELSE Return("Ok") /\ decoded' = decoded \cup {sync}
    /\ UNCHANGED <<stream, input, debug, stream_bps, stream_sample_rate, validator, buf,
                   start, crc16, header, sync, bits_per_sample, sample_rate, resid>>

Next ==
    \/ Call
    \/ ReadFrameHeader
    \/ ResolveDefaults
    \/ Produce
    \/ ReadSubframes
    \/ Decorrelate
    \/ Validate
    \/ Normalize
    \/ Footer

(***************************************************************************)
(* The streams the decoder is run on.  A stream is produced from a         *)
(* description of one frame (`input`): its header fields, its subframes,   *)
(* the bytes in front of it, what its two checksums were computed over,    *)
(* and how it is damaged.                                                  *)
(***************************************************************************)
MaxJunk == 2        \* the longest run of bytes in front of a frame
MaxBlock == 8       \* the largest block of the predicted subframes
DecorBits == 4      \* the bit depth whose sample pairs are all decorrelated

RECURSIVE Flat(_)
Flat(ss) == IF ss = <<>> THEN <<>> ELSE Head(ss) \o Flat(Tail(ss))

\* v in n bits, most significant first (two's complement for v < 0)
Bits(v, n) == [i \in 1..n |-> (v \div Pow2(n - i)) % 2]
Unary(q) == [i \in 1..(q + 1) |-> IF i <= q THEN 0 ELSE 1]
BitsOfAll(vals, n) ==
    [k \in 1..(n * Len(vals)) |-> Bits(vals[((k - 1) \div n) + 1], n)[((k - 1) % n) + 1]]

\* bits to bytes, the last byte padded with zeros
Pack(bits) ==
    [i \in 1..((Len(bits) + 7) \div 8) |->
        LET b(j) == IF 8 * (i - 1) + j <= Len(bits) THEN bits[8 * (i - 1) + j] ELSE 0
        IN  128 * b(1) + 64 * b(2) + 32 * b(3) + 16 * b(4) + 8 * b(5) + 4 * b(6) + 2 * b(7) + b(8)]

\* the encoder's side of rice_signed_to_i32
ZigZag(v) == IF v >= 0 THEN 2 * v ELSE (-2 * v) - 1
RiceBits(v, k) == Unary(ZigZag(v) \div Pow2(k)) \o Bits(ZigZag(v) % Pow2(k), k)

EncPartition(part, sub) ==
    LET w == IF sub.method = 0 THEN 4 ELSE 5
    IN  Bits(sub.rice, w) \o
        (IF sub.rice = Pow2(w) - 1
         THEN Bits(sub.ebits, 5) \o BitsOfAll(part, sub.ebits)
         ELSE Flat([i \in 1..Len(part) |-> RiceBits(part[i], sub.rice)]))

EncResidual(sub) ==
    Bits(sub.method, 2) \o Bits(sub.porder, 4) \o
    Flat([k \in 1..Len(sub.parts) |-> EncPartition(sub.parts[k], sub)])

EncSubframe(sub) ==
    <<0>> \o
    Bits(IF sub.kind = "Constant" THEN 0
         ELSE IF sub.kind = "Verbatim" THEN 1
         ELSE IF sub.kind = "FixedLinear" THEN 8 + sub.order
         ELSE 31 + sub.order, 6) \o
    (IF sub.wasted < 0 THEN <<0>> ELSE <<1>> \o Unary(sub.wasted)) \o
    BitsOfAll(sub.vals, sub.width) \o
    (IF sub.kind = "Linear"
     THEN Bits(sub.precision - 1, 4) \o Bits(sub.shift, 5) \o BitsOfAll(sub.coefs, sub.precision)
     ELSE <<>>) \o
    (IF sub.kind \in {"FixedLinear", "Linear"} THEN EncResidual(sub) ELSE <<>>)

EncHeader(in) ==
    <<255, 248 + in.sync_lo, 16 * in.bs_enc + in.sr_enc, 16 * in.ch_enc + 2 * in.bps_enc>>
    \o in.number \o in.bs_field \o in.sr_field

Damaged(c, bad, m) == IF bad THEN (c + 1) % m ELSE c

\* the frame of `in`, its checksums computed over the frame alone
\* (scope "frame") or over the frame and the bytes in front of it ("all")
EncFrame(in) ==
    LET front == IF in.scope = "all" THEN in.junk ELSE <<>>
        hdr == front \o EncHeader(in)
        crc8 == Damaged(Crc8Run(0, hdr, 0, Len(hdr)), in.hdr_bad, 256)
        body == hdr \o <<crc8>> \o Pack(Flat([k \in 1..Len(in.subs) |-> EncSubframe(in.subs[k])]))
        crc == Damaged(Crc16Run(0, body, 0, Len(body)), in.foot_bad, 65536)
    IN  SubSeq(body, Len(front) + 1, Len(body)) \o <<crc \div 256, crc % 256>>

Sub0 == [kind |-> "Constant", order |-> 0, wasted |-> -1, width |-> 8, vals |-> <<0>>,
         method |-> 0, porder |-> 0, rice |-> 0, ebits |-> 0, parts |-> <<>>,
         precision |-> 1, shift |-> 0, coefs |-> <<>>]

ConstSub(width, c) == [Sub0 EXCEPT !.width = width, !.vals = <<c>>]
VerbatimSub(width, vals) == [Sub0 EXCEPT !.kind = "Verbatim", !.width = width, !.vals = vals]

\* a frame of one channel, 8 bits, 44.1 kHz, n <= 256 samples of value c
Frame0(n, c) ==
    [junk |-> <<>>, scope |-> "frame", sync_lo |-> 0, bs_enc |-> 6, bs_field |-> <<n - 1>>,
     sr_enc |-> 9, sr_field |-> <<>>, ch_enc |-> 0, bps_enc |-> 1, number |-> <<0>>,
     subs |-> <<ConstSub(8, c)>>, hdr_bad |-> FALSE, foot_bad |-> FALSE, tail |-> FALSE,
     left |-> <<>>, right |-> <<>>]

\* the clean frame that follows the frame of an input with `tail`
TailFrame == EncFrame(Frame0(2, 5))

EncStream(in) == in.junk \o EncFrame(in) \o (IF in.tail THEN TailFrame ELSE <<>>)

\* where the frames of the stream of `in` begin
FrameAt(in) == Len(in.junk)
TailAt(in) == Len(in.junk) + Len(EncFrame(in))

Setup(in, bps, rate, dbg) == [in |-> in, bps |-> bps, rate |-> rate, dbg |-> dbg]

\* frames behind bytes that are not a frame, damaged or not, followed by a
\* clean frame or not
Junks == UNION {[1..n -> {0, 1}] : n \in 0..MaxJunk}

SyncInputs ==
    {[Frame0(2, 3) EXCEPT !.junk = j, !.scope = sc, !.hdr_bad = hb, !.foot_bad = fb,
                          !.tail = tl] :
        j \in Junks, sc \in {"frame", "all"}, hb \in BOOLEAN, fb \in BOOLEAN,
        tl \in BOOLEAN}

\* every block-size code, under three settings of the other header fields
BlockFields(e) ==
    IF e = 6 THEN {<<0>>, <<7>>, <<255>>}
    ELSE IF e = 7 THEN {<<0, 0>>, <<1, 2>>, <<255, 255>>}
    ELSE {<<>>}

BlockInputs ==
    {[Frame0(1, 3) EXCEPT !.bs_enc = e, !.bs_field = f] :
        e \in 0..15, f \in UNION {BlockFields(x) : x \in 0..15}}
    \cup
    {[Frame0(1, 3) EXCEPT !.bs_enc = e, !.bs_field = f, !.sync_lo = 1, !.sr_enc = 12,
                          !.sr_field = <<44>>, !.bps_enc = 4, !.number = <<194, 128>>,
                          !.subs = <<ConstSub(16, -300)>>] :
        e \in 0..15, f \in UNION {BlockFields(x) : x \in 0..15}}
    \cup
    {[Frame0(1, 3) EXCEPT !.bs_enc = e, !.bs_field = f, !.sr_enc = 0, !.ch_enc = 1,
                          !.subs = <<ConstSub(8, 3), ConstSub(8, -4)>>] :
        e \in 0..15, f \in UNION {BlockFields(x) : x \in 0..15}}

BlockInputsOk == {in \in BlockInputs : in.bs_field \in BlockFields(in.bs_enc)}

\* reserved and out-of-range header fields, and sequence numbers of every length
FieldInputs ==
    {[Frame0(2, 3) EXCEPT !.sr_enc = e, !.sr_field = f] :
        e \in {12, 13, 14, 15}, f \in {<<>>, <<0>>, <<1, 0>>, <<0, 0>>, <<255, 255>>}}
    \cup {[Frame0(2, 3) EXCEPT !.bps_enc = e] : e \in 0..7}
    \cup {[Frame0(2, 3) EXCEPT !.ch_enc = e] : e \in 11..15}
    \cup {[Frame0(2, 3) EXCEPT !.number = n, !.sync_lo = v] :
            n \in {<<127>>, <<128>>, <<255>>, <<223, 191>>, <<252, 129, 128, 128, 128, 128>>,
                   <<253, 191, 191, 191, 191, 191>>, <<254, 130, 128, 128, 128, 128, 128>>},
            v \in {0, 1}}

FieldInputsOk ==
    {in \in FieldInputs :
        Len(in.sr_field) = (IF in.sr_enc = 12 THEN 1 ELSE IF in.sr_enc \in {13, 14} THEN 2 ELSE 0)}

\* frames with and without their own bit depth and sample rate
DefaultInputs ==
    {[Frame0(2, 3) EXCEPT !.bps_enc = b, !.sr_enc = r, !.subs = <<ConstSub(w, -3)>>] :
        b \in {0, 1, 4}, r \in {0, 9}, w \in {8, 16}}

ResolvedWidth(in, bps) ==
    IF in.bps_enc = 1 THEN 8 ELSE IF in.bps_enc = 4 THEN 16
    ELSE IF IsSome(bps) THEN Get(bps) ELSE 8

DefaultSetups ==
    {su \in {Setup(in, bps, rate, FALSE) :
                in \in DefaultInputs, bps \in {None, Some(8), Some(16)},
                rate \in {None, Some(44100), Some(48000)}} :
        su.in.subs[1].width = ResolvedWidth(su.in, su.bps)}

\* blocks of 192 samples of one value, at 8, 16 and 24 bits
ConstantInputs ==
    {[Frame0(1, 0) EXCEPT !.bs_enc = 1, !.bs_field = <<>>, !.bps_enc = 4,
                          !.subs = <<ConstSub(16, c)>>] :
        c \in {-32768, -12345, -1, 0, 1, 255, 32767}}
    \cup
    {[Frame0(1, 0) EXCEPT !.bs_enc = 1, !.bs_field = <<>>, !.bps_enc = 6,
                          !.subs = <<ConstSub(24, c)>>] :
        c \in {-8388608, -1, 8388607}}
    \cup
    {[Frame0(1, 0) EXCEPT !.bs_enc = 1, !.bs_field = <<>>, !.ch_enc = 1,
                          !.subs = <<ConstSub(8, c), VerbatimSub(8, [i \in 1..192 |-> (i % 256) - 128])>>] :
        c \in {-128, 127}}

\* stereo frames: every pair of samples of DecorBits bits, and longer blocks
\* of 8-bit pairs, in each of the three encodings
Floor2(x) == x \div 2
DecorSubs(ch_enc, w, l, r) ==
    LET n == Len(l)
        d == [i \in 1..n |-> l[i] - r[i]]
        m == [i \in 1..n |-> Floor2(l[i] + r[i])]
    IN  IF ch_enc = 8 THEN <<VerbatimSub(w, l), VerbatimSub(w + 1, d)>>
        ELSE IF ch_enc = 9 THEN <<VerbatimSub(w + 1, d), VerbatimSub(w, r)>>
        ELSE <<VerbatimSub(w, m), VerbatimSub(w + 1, d)>>

DecorInput(ch_enc, bps_enc, w, l, r) ==
    [Frame0(Len(l), 0) EXCEPT !.ch_enc = ch_enc, !.bps_enc = bps_enc,
                              !.subs = DecorSubs(ch_enc, w, l, r), !.left = l, !.right = r]

DecorSamples == (-Pow2(DecorBits - 1))..(Pow2(DecorBits - 1) - 1)

DecorInputs ==
    {DecorInput(e, 0, DecorBits, <<l>>, <<r>>) :
        e \in {8, 9, 10}, l \in DecorSamples, r \in DecorSamples}

DecorInputs8 ==
    {DecorInput(e, 1, 8, lr[1], lr[2]) :
        e \in {8, 9, 10},
        lr \in {<<<<12, -128, 127>>, <<9, 127, -128>>>>,
                <<<<-128, 127, -1, 0>>, <<-128, 127, 0, -1>>>>}}

\* predicted subframes: every block size up to MaxBlock, predictor order
\* and partition order, Rice coded and escape coded
ResidualValue(i) == ((3 * i) % 5) - 2
WarmUpValue(i) == ((5 * i) % 7) - 3

PartitionOrders == 0..3

Parts(n, order, porder) ==
    LET q == n \div Pow2(porder)
    IN  IF q * Pow2(porder) # n \/ order > q THEN <<>>
        ELSE [k \in 1..Pow2(porder) |->
                [i \in 1..(IF k = 1 THEN q - order ELSE q) |->
                    ResidualValue((k - 1) * q + i)]]

PredictedInput(kind, n, order, porder, method, rice) ==
    [Frame0(n, 0) EXCEPT
        !.subs = <<[Sub0 EXCEPT !.kind = kind, !.order = order,
                                !.vals = [i \in 1..order |-> WarmUpValue(i)],
                                !.method = method, !.porder = porder, !.rice = rice,
                                !.ebits = 3, !.parts = Parts(n, order, porder),
                                !.precision = 3, !.shift = 1,
                                !.coefs = [i \in 1..order |-> 2 - i]]>>]

ResidualInputs ==
    {PredictedInput("FixedLinear", n, order, porder, 0, 1) :
        n \in 1..MaxBlock, order \in 0..4, porder \in PartitionOrders}
    \cup
    {PredictedInput("Linear", n, order, porder, 1, 31) :
        n \in 1..MaxBlock, order \in 1..3, porder \in PartitionOrders}
    \cup
    {PredictedInput("FixedLinear", n, 1, porder, m, 0) :
        n \in {4, MaxBlock}, porder \in PartitionOrders, m \in 1..3}

\* wasted bits up to and beyond the bit depth of the frame
WastedInputs ==
    {[Frame0(2, 0) EXCEPT
        !.subs = <<[ConstSub(IF w > 8 THEN 0 ELSE 8 - w, IF w >= 8 THEN 0 ELSE -1)
                    EXCEPT !.wasted = w]>>] : w \in {0, 1, 7, 8}}
    \cup
    {[Frame0(2, 0) EXCEPT
        !.subs = <<[Sub0 EXCEPT !.kind = "FixedLinear", !.wasted = w, !.vals = <<>>,
                                !.rice = 2, !.parts = <<<<-3, 5>>>>]>>] :
        w \in {0, 1, 7, 8, 9, 10, 40}}
    \cup
    {[DecorInput(8, 1, 8, <<5, 6>>, <<2, -7>>) EXCEPT
        !.left = <<>>, !.right = <<>>,
        !.subs = <<VerbatimSub(8, <<5, 6>>),
                   [Sub0 EXCEPT !.kind = "FixedLinear", !.wasted = w, !.vals = <<>>,
                                !.rice = 2, !.parts = <<<<3, 13>>>>]>>] :
        w \in {0, 9, 10}}

\* fixed predictors over residuals of 31 bits (escape coded), which take the
\* reconstructed samples beyond 32 bits
LargeResiduals == {Two30 - 1, -Two30, 3}

OverflowInputs ==
    {[PredictedInput("FixedLinear", order + 2, order, 0, 0, 15) EXCEPT
        !.subs[1].ebits = 31, !.subs[1].parts = <<<<r1, r2>>>>] :
        order \in 0..4, r1 \in LargeResiduals, r2 \in LargeResiduals}

\* linear predictors over blocks that reach the 32-tap loop of lpc_predict,
\* of few taps and of all 32
LongBlock == 36

SteadyInputs ==
    {PredictedInput("Linear", n, order, porder, 1, 31) :
        n \in {33, LongBlock}, order \in 1..3, porder \in {0, 2}}
    \cup
    {[PredictedInput("Linear", n, 32, 0, 0, 1) EXCEPT
        !.subs[1].coefs = [i \in 1..32 |-> ((3 * i) % 8) - 4], !.subs[1].shift = 3] :
        n \in {32, 33, LongBlock}}

\* linear predictors whose 64-bit sum leaves the range of 32 bits: the
\* largest and the smallest coefficient of 3 and of 15 bits over residuals of
\* 31 bits
WideInputs ==
    {[PredictedInput("Linear", order + 2, order, 0, 0, 15) EXCEPT
        !.subs[1].ebits = 31, !.subs[1].parts = <<<<r1, r2>>>>,
        !.subs[1].precision = p, !.subs[1].shift = sh,
        !.subs[1].coefs = [i \in 1..order |->
                              IF i = 1 THEN Pow2(p - 1) - 1 ELSE -Pow2(p - 1)]] :
        order \in 1..2, r1 \in LargeResiduals, r2 \in LargeResiduals,
        p \in {3, 15}, sh \in {0, 1, 15}}

\* linear predictors with a negative shift, in front of a residual that
\* decodes, of one with a reserved coding method or a partition order that
\* does not fit the block, and of one that the stream ends in
NegativeShifts == {-16, -7, -1}

NegativeShiftInputs ==
    {[PredictedInput("Linear", 4, order, porder, method, 1) EXCEPT !.subs[1].shift = sh] :
        order \in 1..2, porder \in PartitionOrders, method \in 0..2, sh \in NegativeShifts}
    \cup
    {[PredictedInput("Linear", 4, 1, 0, 0, 15) EXCEPT
        !.subs[1].shift = sh, !.subs[1].ebits = 31, !.subs[1].parts = <<<<r>>>>] :
        sh \in NegativeShifts, r \in LargeResiduals}

Setups ==
    {Setup(in, Some(16), Some(44100), dbg) :
        in \in SyncInputs \cup FieldInputsOk \cup ConstantInputs
               \cup DecorInputs8 \cup ResidualInputs \cup WastedInputs
               \cup OverflowInputs \cup SteadyInputs \cup WideInputs
               \cup NegativeShiftInputs,
        dbg \in BOOLEAN}
    \cup {Setup(in, Some(16), Some(44100), FALSE) : in \in BlockInputsOk}
    \cup {Setup(in, Some(16), Some(44100), TRUE) : in \in {x \in BlockInputsOk : x.bs_enc = 7}}
    \cup {Setup(in, Some(DecorBits), Some(44100), FALSE) : in \in DecorInputs}
    \cup DefaultSetups

\* the channels of the caller's buffer: those of the stream
Channels(in) == IF in.ch_enc = 0 THEN 1 ELSE 2

Init ==
    \E su \in Setups :
        /\ input = su.in
        /\ stream = EncStream(su.in)
        /\ debug = su.dbg
        /\ stream_bps = su.bps
        /\ stream_sample_rate = su.rate
        /\ validator = <<>>
        /\ pos = 0
        /\ buf = NewBuffer(Channels(su.in))
        /\ pc = "idle"
        /\ result = "none"
        /\ start = 0
        /\ crc16 = 0
        /\ header = NoHeader
        /\ sync = -1
        /\ bits_per_sample = 0
        /\ sample_rate = 0
        /\ resid = <<>>
        /\ decoded = {}

Spec == Init /\ [][Next]_vars

(***************************************************************************)
(* Resynchronisation and the two checksums.                                *)
(***************************************************************************)
\* a call of next has returned because the stream ended while it was looking
\* for a sync code: every later call ends the same way
StreamExhausted == pc = "idle" /\ result = "IoError" /\ sync = -1

\* where the stream holds a complete frame whose checksums cover the frame
\* itself: the first frame when it is undamaged, and the frame that follows it
ValidFrameStarts ==
    (IF input.junk # <<>> /\ input.scope = "frame" /\ ~input.hdr_bad /\ ~input.foot_bad
     THEN {FrameAt(input)} ELSE {})
    \cup (IF input.tail THEN {TailAt(input)} ELSE {})

\* C1: a valid frame that starts at or after the reader's position is decoded
\* by one of the calls of next made until the stream is exhausted, whatever
\* lies in front of it and however the earlier calls failed.
C1_Resynchronises == StreamExhausted => ValidFrameStarts \subseteq decoded

\* C2: read_frame_header returns a header only if the byte that ends the
\* header is the CRC-8 of the bytes from the sync code to the last header
\* field, the bytes scanned before the sync code left out.
C2_HeaderCrc8FromSync ==
    pc = "resolve" => stream[pos] = Crc8Run(0, stream, sync, pos - 1)

\* C3: next returns Ok only if the footer is the CRC-16 of the bytes of the
\* frame, from its sync code to its last subframe byte.
C3_FrameCrc16FromSync ==
    (pc = "idle" /\ result = "Ok")
        => read_be_u16(stream, pos - 2) = Crc16Run(0, stream, sync, pos - 2)

(***************************************************************************)
(* Defaults, normalisation and decorrelation.                              *)
(***************************************************************************)
\* the header found at `sync` carries no bit depth / no sample rate of its own
NoBpsField == (stream[sync + 4] \div 2) % 8 = 0
NoRateField == stream[sync + 3] % 16 = 0

\* C4: the bit depth and the sample rate are each the header's value when the
\* header carries one and the stream's default otherwise; when either has
\* neither, next returns a decode error at that point, the buffer and the
\* reader untouched.
C4_ResolvesDefaults ==
    [][pc = "resolve" =>
         /\ (header.bits_per_sample = None) = NoBpsField
         /\ (header.sample_rate = None) = NoRateField
         /\ IF \/ NoBpsField /\ stream_bps = None
               \/ NoRateField /\ stream_sample_rate = None
            THEN pc' = "idle" /\ result' = "DecodeError" /\ buf' = buf /\ pos' = pos
            ELSE /\ pc' = "produce"
                 /\ bits_per_sample' \in
                        (IF NoBpsField THEN stream_bps ELSE header.bits_per_sample)
                 /\ sample_rate' \in
                        (IF NoRateField THEN stream_sample_rate ELSE header.sample_rate)
                 /\ buf' = buf /\ pos' = pos]_vars

C4_Witness ==
    /\ pc = "produce"
    /\ NoBpsField /\ ~NoRateField
    /\ stream_bps = Some(16) /\ bits_per_sample = 16
    /\ stream_sample_rate = Some(48000) /\ sample_rate = 44100

\* v as a sample of b bits, in the top b bits of a 32-bit word
ShiftedTo32(v, b) ==
    LET low == v % Pow2(b)
    IN  (IF low >= Pow2(b - 1) THEN low - Pow2(b) ELSE low) * Pow2(32 - b)

\* the samples the running call reconstructed, as the validator received them
Reconstructed == validator[Len(validator)].buf.chan

\* C5: after a successful call with bit depth b < 32, every sample of the
\* block is its reconstructed value shifted left by 32 - b bits; a mono
\* Constant frame of 192 samples at 16 bits gives 192 times the encoded
\* constant shifted left by 16.
C5_NormalizedTo32Bits ==
    (pc = "idle" /\ result = "Ok" /\ bits_per_sample < 32) =>
        /\ \A c \in DOMAIN buf.chan :
              /\ Len(buf.chan[c]) = header.block_num_samples
              /\ \A i \in 1..Len(buf.chan[c]) :
                    buf.chan[c][i] = ShiftedTo32(Reconstructed[c][i], bits_per_sample)
        /\ (/\ input.bs_enc = 1 /\ input.bps_enc = 4 /\ sync = FrameAt(input)
            /\ input.subs[1].kind = "Constant")
           => buf.chan = [c \in {0} |-> [i \in 1..192 |-> input.subs[1].vals[1] * 65536]]

C5_Witness ==
    /\ pc = "idle" /\ result = "Ok" /\ bits_per_sample = 16
    /\ input.subs[1].kind = "Constant" /\ input.subs[1].vals = <<-12345>>
    /\ Len(buf.chan[0]) = 192
    /\ buf.chan[0][192] = -809041920

\* C6: a LeftSide frame storing (L, L - R), a RightSide frame storing
\* (L - R, R) and a MidSide frame storing (floor((L + R) / 2), L - R) each
\* decode, and leave L in channel 0 and R in channel 1.
C6_DecorrelationRoundTrip ==
    input.left # <<>> =>
        /\ result \notin {"DecodeError", "UnsupportedError", "Panic"}
        /\ result = "IoError" => FrameAt(input) \in decoded
        /\ pc = "validate" => buf.chan[0] = input.left /\ buf.chan[1] = input.right

C6_Witness ==
    /\ pc = "validate"
    /\ header.channel_assignment.kind = "MidSide"
    /\ input.subs[1].vals[1] = 10 /\ input.subs[2].vals[1] = 3
    /\ buf.chan[0][1] = 12 /\ buf.chan[1][1] = 9

(***************************************************************************)
(* Block sizes, the order of the steps, residual partitions, wasted bits.  *)
(***************************************************************************)
\* the 4-bit block-size code of the header found at `sync`
BlockSizeCode == stream[sync + 3] \div 16

FixedBlockSizeCodes == {1, 2, 3, 4, 5, 8, 9, 10, 11, 12, 13, 14, 15}

BlockSizeTable ==
    <<192, 576, 1152, 2304, 4608, 0, 0, 256, 512, 1024, 2048, 4096, 8192, 16384, 32768>>

\* C7 as amended: a header with block-size code 0x1, 0x2-0x5 or 0x8-0xf that
\* parses gives the table value of the code (192 for 0x1, 576 * 2^(c - 2) for
\* 0x2-0x5, 256 * 2^(c - 8) for 0x8-0xf, so 512 for 0x9) whatever the other
\* fields are, and the header ends where it ends without a block-size field.
C7_BlockSizeTable ==
    (pc = "resolve" /\ sync = FrameAt(input) /\ BlockSizeCode \in FixedBlockSizeCodes) =>
        /\ header.block_num_samples = BlockSizeTable[BlockSizeCode]
        /\ pos = sync + 4 + Len(input.number) + Len(input.sr_field) + 1

C7_Witness ==
    /\ pc = "resolve" /\ sync = FrameAt(input)
    /\ BlockSizeCode = 9 /\ header.block_num_samples = 512
    /\ header.channel_assignment.channels = 2

\* C7 as claimed: the table gives 192 for code 0x1 and 4608 for code 0x9.
C7_TableAsClaimed ==
    (pc = "resolve" /\ sync = FrameAt(input)) =>
        /\ BlockSizeCode = 1 => header.block_num_samples = 192
        /\ BlockSizeCode = 9 => header.block_num_samples = 4608

\* the steps that follow the subframes of a frame
AfterSubframes == {"decorrelate", "validate", "normalize", "footer"}

StepOrder ==
    {<<"idle", "header">>, <<"header", "resolve">>, <<"resolve", "produce">>,
     <<"produce", "subframes">>, <<"subframes", "decorrelate">>, <<"subframes", "validate">>,
     <<"decorrelate", "validate">>, <<"validate", "normalize">>, <<"normalize", "footer">>}
    \cup {<<p, "idle">> : p \in {"header", "resolve", "subframes", "decorrelate",
                                 "normalize", "footer"}}

\* the samples of the frame of `input` are known: a stereo frame made from
\* left and right, or a mono frame of one constant written at the bit depth
\* the call decodes it at
KnownStereo == input.left # <<>> /\ sync = FrameAt(input)
KnownConstant ==
    /\ Len(input.subs) = 1 /\ input.subs[1].kind = "Constant" /\ input.subs[1].wasted < 0
    /\ input.subs[1].width = bits_per_sample
    /\ sync = FrameAt(input)

\* C8: a call goes through header, subframes, decorrelation (of a stereo
\* pair), validator, normalisation and footer in that order, a step that
\* fails ends the call, and the validator receives the samples as
\* reconstructed, before the normalisation shift.
C8_FixedStepOrder ==
    /\ [][/\ <<pc, pc'>> \in StepOrder
          /\ (pc' = "idle") = (result' # "none")
          /\ result' = "Ok" => pc = "footer"
          /\ pc' = "decorrelate" => header.channel_assignment.kind # "Independant"
          /\ (pc = "subframes" /\ pc' = "validate")
                => header.channel_assignment.kind = "Independant"
          /\ validator' # validator
                => /\ pc = "validate" /\ pc' = "normalize"
                   /\ Len(validator') = Len(validator) + 1 /\ buf' = buf]_vars
    /\ [](pc \in {"decorrelate", "validate"} =>
            \A c \in 0..(header.channel_assignment.channels - 1) :
                Len(buf.chan[c]) = header.block_num_samples)
    /\ [](pc \in {"normalize", "footer"} =>
            /\ validator[Len(validator)].bps = bits_per_sample
            /\ KnownStereo => /\ validator[Len(validator)].buf.chan[0] = input.left
                              /\ validator[Len(validator)].buf.chan[1] = input.right
            /\ KnownConstant =>
                  \A i \in 1..header.block_num_samples :
                      validator[Len(validator)].buf.chan[0][i] = input.subs[1].vals[1])

C8_Witness ==
    /\ pc = "footer" /\ KnownStereo
    /\ header.channel_assignment.kind = "RightSide"
    /\ bits_per_sample = 8
    /\ validator[1].buf.chan[0] = <<12, -128, 127>>
    /\ buf.chan[0] = <<201326592, MinI32, 2130706432>>

RECURSIVE SumOf(_)
SumOf(q) == IF q = <<>> THEN 0 ELSE Head(q) + SumOf(Tail(q))

\* the checks of decode_residual as C9 states them, with "at least"
PartitionsFit(c) ==
    /\ (c.len \div Pow2(c.order)) * Pow2(c.order) = c.len
    /\ c.len \div Pow2(c.order) >= c.prelude

\* the predictor order of the subframe of `input` exceeds its block
OrderExceedsBlock ==
    /\ input.bs_enc = 6
    /\ input.subs[1].kind \in {"FixedLinear", "Linear"}
    /\ input.subs[1].order > input.bs_field[1] + 1

WastedExceedsWidth ==
    /\ input.bps_enc = 1
    /\ \E k \in DOMAIN input.subs :
          input.subs[k].wasted >
              8 + (IF (input.ch_enc \in {8, 10} /\ k = 2) \/ (input.ch_enc = 9 /\ k = 1)
                   THEN 1 ELSE 0)

\* C10: a subframe whose wasted-bit count exceeds frame_bps fails: the call
\* neither panics on the subtraction nor goes on to the steps after the
\* subframes.
C10_WidthGuarded ==
    WastedExceedsWidth =>
        /\ result # "Panic"
        /\ pc \in AfterSubframes => sync # FrameAt(input)

(***************************************************************************)
(* C11: the fixed predictors.  The recurrence of the claim is computed on  *)
(* 16-bit halves, where no intermediate value leaves the range of a word.  *)
(***************************************************************************)
Halves(v) == <<(v \div 65536) % 65536, v % 65536>>
Whole(h) == (IF h[1] >= 32768 THEN h[1] - 65536 ELSE h[1]) * 65536 + h[2]
HalvesScaled(c, h) ==
    LET lo == c * h[2]
    IN  <<(c * h[1] + (lo \div 65536)) % 65536, lo % 65536>>
HalvesSum(a, b) ==
    LET lo == a[2] + b[2]
    IN  <<(a[1] + b[1] + (lo \div 65536)) % 65536, lo % 65536>>

RECURSIVE Binomial(_, _), PolynomialSum(_, _, _), PolynomialRecurrence(_, _, _)
Binomial(k, j) == IF j = 0 \/ j = k THEN 1 ELSE Binomial(k - 1, j - 1) + Binomial(k - 1, j)

\* the coefficient of s[i - j] in the polynomial of order k: 1; 2, -1;
\* 3, -3, 1; 4, -6, 4, -1
PolynomialCoeff(k, j) == (IF j % 2 = 1 THEN 1 ELSE -1) * Binomial(k, j)

PolynomialSum(k, s, j) ==
    IF j > k THEN Halves(0)
    ELSE HalvesSum(HalvesScaled(PolynomialCoeff(k, j), Halves(s[Len(s) + 1 - j])),
                   PolynomialSum(k, s, j + 1))

\* s followed by the samples the residuals r reconstruct at order k
PolynomialRecurrence(k, s, r) ==
    IF r = <<>> THEN s
    ELSE PolynomialRecurrence(
             k, Append(s, Whole(HalvesSum(Halves(Head(r)), PolynomialSum(k, s, 1)))),
             Tail(r))

\* the frame of `input` is one FixedLinear subframe whose warm-up samples and
\* residuals are known
KnownFixed ==
    /\ Len(input.subs) = 1 /\ input.subs[1].kind = "FixedLinear"
    /\ input.subs[1].wasted < 0 /\ input.subs[1].width = bits_per_sample
    /\ input.subs[1].parts # <<>>
    /\ sync = FrameAt(input)

\* C11: a FixedLinear subframe of order k in 0..4 never traps on overflow, and
\* once it is decoded (before the normalisation) the channel holds the k warm-up samples followed by the
\* samples of the polynomial recurrence of order k over the residuals, every
\* product and sum reduced modulo 2^32.
C11_FixedPredictWraps ==
    KnownFixed =>
        /\ result # "Panic"
        /\ pc = "validate" =>
              buf.chan[0] = PolynomialRecurrence(input.subs[1].order, input.subs[1].vals,
                                                 Flat(input.subs[1].parts))

\* what the build without overflow checks does
C11_ReleaseWraps == ~debug => C11_FixedPredictWraps

(***************************************************************************)
(* C12: the linear predictor as one recurrence of `order` taps over the    *)
(* coefficients in the order the stream gives them.                        *)
(***************************************************************************)
RECURSIVE TapSum(_, _, _, _), LinearRecurrence(_, _, _, _)
\* c_j * s[i - j] summed over the taps lo .. hi, as an i64
TapSum(c, s, lo, hi) ==
    IF lo > hi THEN <<0, 0>>
    ELSE IF lo = hi THEN I64Product(c[lo], s[Len(s) + 1 - lo])
    ELSE I64Sum(TapSum(c, s, lo, (lo + hi) \div 2),
                TapSum(c, s, ((lo + hi) \div 2) + 1, hi))

\* the value of the recurrence that follows the samples s
Predicted(c, shift, s) == ShrAsI32(TapSum(c, s, 1, Len(c)), shift)

\* s followed by the samples the residuals r reconstruct: those of the first
\* half of r, then those of the rest
LinearRecurrence(c, shift, s, r) ==
    IF r = <<>> THEN s
    ELSE IF Len(r) = 1 THEN Append(s, WrappingAdd(r[1], Predicted(c, shift, s)))
    ELSE With(LinearRecurrence(c, shift, s, SubSeq(r, 1, Len(r) \div 2)),
              LAMBDA first :
                LinearRecurrence(c, shift, first, SubSeq(r, (Len(r) \div 2) + 1, Len(r))))

\* a sum residual + prediction of the recurrence leaves the range of 32 bits
LinearOverflows(c, shift, s, r) ==
    \E k \in 1..Len(r) :
        With(LinearRecurrence(c, shift, s, SubSeq(r, 1, k - 1)),
             LAMBDA before : AddOverflows(r[k], Predicted(c, shift, before)))

\* the frame of `input` is one Linear subframe with a shift >= 0 whose
\* warm-up samples, coefficients and residuals are known
KnownLinear ==
    /\ Len(input.subs) = 1 /\ input.subs[1].kind = "Linear"
    /\ input.subs[1].wasted < 0 /\ input.subs[1].width = bits_per_sample
    /\ input.subs[1].parts # <<>> /\ input.subs[1].shift >= 0
    /\ sync = FrameAt(input)

C12_CutTo32Bits ==
    /\ KnownLinear /\ pc = "validate"
    /\ input.subs[1].coefs = <<3>> /\ input.subs[1].shift = 0
    /\ buf.chan[0] = <<2, 1073741829, -1073741806>>

(***************************************************************************)
(* C13: a negative coefficient shift.                                      *)
(***************************************************************************)
\* the frame of `input` is one Linear subframe with a negative shift, and
\* the call is the one that reads it
NegativeShift ==
    /\ Len(input.subs) = 1 /\ input.subs[1].kind = "Linear"
    /\ input.subs[1].wasted < 0 /\ input.subs[1].width = bits_per_sample
    /\ input.subs[1].shift < 0
    /\ start = 0 /\ sync = FrameAt(input)

\* the residual written behind the shift and the coefficients decodes: its
\* coding method is 0 or 1 and its partitions hold the residuals of the block
ResidualDecodes ==
    /\ input.subs[1].method \in {0, 1}
    /\ input.subs[1].parts # <<>>
    /\ Len(input.subs[1].vals) + Len(Flat(input.subs[1].parts)) = input.bs_field[1] + 1

Returned == pc = "idle" /\ result # "none"

\* C13 as amended: with a negative shift the subframe never returns Ok and
\* never goes on to the steps after the subframes; it ends with the
\* unsupported-feature error exactly when the residual behind the shift
\* decodes, and then holds the warm-up samples followed by the residuals as
\* read, not predicted; a residual that does not decode ends it with the
\* error of the residual, a decode error or the end of the stream.
C13_UnsupportedAfterResidual ==
    NegativeShift =>
        /\ pc \notin AfterSubframes
        /\ result \notin {"Ok", "Panic"}
        /\ Returned =>
              /\ (result = "UnsupportedError") = ResidualDecodes
              /\ result \in {"UnsupportedError", "DecodeError", "IoError"}
              /\ result = "UnsupportedError" =>
                    buf.chan[0] = input.subs[1].vals \o Flat(input.subs[1].parts)

C13_Witness ==
    /\ NegativeShift /\ Returned /\ result = "UnsupportedError"
    /\ input.subs[1].shift = -16 /\ input.subs[1].order = 2
    /\ buf.chan[0] = <<2, 0, 1, -1>>

\* C13 as claimed: with a negative shift the subframe ends with the
\* unsupported-feature error whatever data follow the shift field.
C13_UnsupportedWhateverFollows ==
    (NegativeShift /\ Returned) => result = "UnsupportedError"

(***************************************************************************)
(* C14: rice_signed_to_i32 against the encoder's zig-zag mapping, on       *)
(* 32-bit patterns around 0, 2^31 and 2^32.  A pattern stands for the      *)
(* codeword (u32) and for the residual (i32) with those bits.              *)
(***************************************************************************)
MaxWord == 10

RiceWords ==
    UNION {{k, -1 - k, MaxI32 - k, MinI32 + k} : k \in 0..MaxWord}

\* the encoder's mapping: 2v for v >= 0, -2v - 1 for v < 0, modulo 2^32
ZigZag32(v) ==
    IF v >= 0 THEN Whole(HalvesScaled(2, Halves(v)))
    ELSE Whole(HalvesSum(HalvesScaled(-2, Halves(v)), Halves(-1)))

RiceInit ==
    /\ input \in {[word |-> w] : w \in RiceWords}
    /\ stream = <<>>
    /\ debug = FALSE
    /\ stream_bps = None
    /\ stream_sample_rate = None
    /\ validator = <<>>
    /\ pos = 0
    /\ buf = NewBuffer(1)
    /\ pc = "idle"
    /\ result = "none"
    /\ start = 0
    /\ crc16 = 0
    /\ header = NoHeader
    /\ sync = -1
    /\ bits_per_sample = 0
    /\ sample_rate = 0
    /\ resid = <<>>
    /\ decoded = {}

\* the next value of the chain of conversions
Converted(to, value) ==
    /\ pc' = to
    /\ buf' = [buf EXCEPT !.chan[0] = Append(buf.chan[0], value)]
    /\ UNCHANGED <<stream, input, debug, stream_bps, stream_sample_rate, validator, pos,
                   result, start, crc16, header, sync, bits_per_sample, sample_rate,
                   resid, decoded>>

\* the pattern taken as a codeword: decoded, then encoded again
DecodeWord ==
    /\ pc = "idle"
    /\ Converted("residual", rice_signed_to_i32(input.word))

EncodeResidual ==
    /\ pc = "residual"
    /\ Converted("codeword", ZigZag32(buf.chan[0][1]))

\* the pattern taken as a residual: encoded, then decoded
EncodeWord ==
    /\ pc = "idle"
    /\ Converted("encoded", ZigZag32(input.word))

DecodeCodeword ==
    /\ pc = "encoded"
    /\ Converted("decoded", rice_signed_to_i32(buf.chan[0][1]))

RiceNext == DecodeWord \/ EncodeResidual \/ EncodeWord \/ DecodeCodeword

RiceSpec == RiceInit /\ [][RiceNext]_vars

\* the residuals of the codewords 0 .. 10 (verify_rice_signed_to_i32)
RiceTable == <<0, -1, 1, -2, 2, -3, 3, -4, 4, -5, 5>>

\* C14: an even codeword w decodes to w / 2 and an odd one to -(w + 1) / 2
\* (0 .. 10 to 0, -1, 1, -2, 2, -3, 3, -4, 4, -5, 5, and 0xFFFFFFFF to
\* i32::MIN); encoding the residual gives back the codeword, and decoding the
\* encoding of a residual gives back the residual, so the mapping is one to
\* one and onto.
C14_ZigZagInverse ==
    /\ pc \in {"residual", "codeword"} =>
          /\ (input.word % 2 = 0) = (buf.chan[0][1] >= 0)
          /\ (input.word >= 0 /\ input.word % 2 = 0) => buf.chan[0][1] = input.word \div 2
          \* -(w + 1) / 2, with (w + 1) / 2 taken as w / 2 + 1
          /\ (input.word >= 0 /\ input.word % 2 = 1)
                => buf.chan[0][1] = -((input.word \div 2) + 1)
          /\ input.word \in 0..10 => buf.chan[0][1] = RiceTable[input.word + 1]
          /\ input.word = -1 => buf.chan[0][1] = MinI32
    /\ pc = "codeword" => buf.chan[0][2] = input.word
    /\ pc = "decoded" => buf.chan[0][2] = input.word

\* 0xFFFFFFFF decoded to i32::MIN and encoded back
C14_Witness ==
    /\ pc = "codeword" /\ input.word = -1
    /\ buf.chan[0] = <<MinI32, -1>>

(***************************************************************************)
(* C15: the validator and the calls that fail.                             *)
(***************************************************************************)
\* C15: between calls the validator holds one block for every frame that a
\* call returned Ok for, and nothing else: a call that returns an error
\* leaves it as it was before the call.
C15_ValidatorOnlyOnOk ==
    (pc = "idle" /\ result # "Panic") => Len(validator) = Cardinality(decoded)

(***************************************************************************)
(* C16: the block size of a header that read_frame_header returns.         *)
(***************************************************************************)
\* read_frame_header has returned a header to the running call
HeaderReturned == pc \notin {"idle", "header"}

\* the header of the frame of `input`, whose block-size field is known
KnownBlockField == sync = FrameAt(input) /\ input.bs_field \in BlockFields(input.bs_enc)

\* C16: every header that read_frame_header returns has block_num_samples
\* >= 1, and with the code 0x6 or 0x7 it is the 8-bit or 16-bit field behind
\* the header plus one, 65536 for the field 0xffff included; reading the
\* field never panics.
C16_BlockSizeAtLeastOne ==
    /\ HeaderReturned =>
          /\ header.block_num_samples >= 1
          /\ (KnownBlockField /\ input.bs_enc = 6)
                => header.block_num_samples = input.bs_field[1] + 1
          /\ (KnownBlockField /\ input.bs_enc = 7)
                => header.block_num_samples = 256 * input.bs_field[1] + input.bs_field[2] + 1
    /\ (KnownBlockField /\ input.bs_enc \in {6, 7} /\ pc = "idle" /\ header = NoHeader)
          => result # "Panic"

\* what holds of every field value but 0xffff
C16_BelowFFFF == input.bs_field # <<255, 255>> => C16_BlockSizeAtLeastOne

====
